---------------------------- MODULE Spec2Model ----------------------------
(***************************************************************************)
(* The base64 command of yupsh/base64: the encoder (encodeSource), the     *)
(* decoder (decodeSource), the line wrapper and the alphabet filter, with  *)
(* the cooperative cancellation checks between their steps.                *)
(*                                                                         *)
(* A string is a sequence of Unicode code points (valid UTF-8 text); a     *)
(* byte sequence is a sequence of 0..255.  Go indexes a string by BYTE:    *)
(* `for i, char := range s` yields the byte offset i at which the rune     *)
(* char starts, so the model carries the byte offset beside the rune       *)
(* position and advances it by RuneLen.                                    *)
(*                                                                         *)
(* An invocation is one call of encodeSource or decodeSource on one input  *)
(* source, as yup.ProcessFilesWithContext makes it from Execute.  The      *)
(* library calls are modelled by what they are documented to do:           *)
(* bufio.Scanner with ScanLines (the lines here stay far below its 64 KiB  *)
(* token limit), strings.TrimSpace, base64.StdEncoding, fmt.Fprintln (one  *)
(* Write of the text and a newline), yup.CheckContextCancellation          *)
(* (ctx.Err() once the context is done) and yup.ScanWithContext (no scan   *)
(* once the context is done).                                              *)
(***************************************************************************)
EXTENDS Integers, Sequences, FiniteSets, TLC

\* ------------------------------------------------------------------ bounds

\* Longest byte sequence enumerated over ByteSet as an encoder input.
MaxDataLen == 3
\* Longest text enumerated over TextChars as a decoder input.
MaxTextLen == 4
\* Longest short read a source may return before it has delivered everything.
MaxShortRead == 1
\* Longest string enumerated over WrapChars as an argument of the line wrapper.
MaxWrapLen == 3
\* Most one-byte characters ahead of the run of equal characters in a long line.
MaxPrefix == 2
\* Most characters by which a long line's run exceeds the polling interval.
MaxExtra == 2

\* ------------------------------------------------------- program constants

\* `const chunkSize = 32 * 1024`
chunkSize == 32768
\* `cmd.Flags.WrapWidth = 76`
DefaultWrapWidth == 76
\* `if i%1000 == 0` in the wrap pass and in the filter pass
PollInterval == 1000
\* '\n', the rune the wrapper inserts and Fprintln appends
NL == 10

\* -------------------------------------------------------------- sequences

Min(a, b) == IF a < b THEN a ELSE b

Tail2(s, n) == SubSeq(s, n + 1, Len(s))

SeqsUpTo(S, n) == UNION {[1..k -> S] : k \in 0..n}

Repeat(x, n) == [i \in 1..n |-> x]

\* ------------------------------------------------------------ Go run-time

\* utf8.RuneLen: the bytes a rune takes in a Go string, which is what the
\* index of `for i, char := range s` advances by.
RuneLen(c) == IF c < 128 THEN 1 ELSE IF c < 2048 THEN 2 ELSE IF c < 65536 THEN 3 ELSE 4

\* unicode.IsSpace, as strings.TrimSpace uses it.
IsSpace(c) ==
    \/ c \in {9, 10, 11, 12, 13, 32, 133, 160, 5760, 8232, 8233, 8239, 8287, 12288}
    \/ (c >= 8192 /\ c <= 8202)

RECURSIVE TrimLeft(_)
TrimLeft(s) == IF s # <<>> /\ IsSpace(Head(s)) THEN TrimLeft(Tail(s)) ELSE s

RECURSIVE TrimRight(_)
TrimRight(s) ==
    IF s # <<>> /\ IsSpace(s[Len(s)]) THEN TrimRight(SubSeq(s, 1, Len(s) - 1)) ELSE s

\* strings.TrimSpace
TrimSpace(s) == TrimRight(TrimLeft(s))

\* bufio.ScanLines' dropCR: one trailing '\r' goes.
dropCR(s) == IF s # <<>> /\ s[Len(s)] = 13 THEN SubSeq(s, 1, Len(s) - 1) ELSE s

\* The position of the first '\n' of s, 0 when it has none.
RECURSIVE IndexNL(_, _)
IndexNL(s, k) == IF k > Len(s) THEN 0 ELSE IF s[k] = NL THEN k ELSE IndexNL(s, k + 1)

\* bufio.ScanLines on the unread text (non-empty): the token and what is left.
\* A line ends at '\n'; the last line needs none.
ScanLines(data) ==
    LET i == IndexNL(data, 1) IN
    IF i > 0 THEN [token |-> dropCR(SubSeq(data, 1, i - 1)), rest |-> Tail2(data, i)]
    ELSE [token |-> dropCR(data), rest |-> <<>>]

\* ------------------------------------------------ encoding/base64, standard

\* The standard alphabet: the character of a 6-bit value.
EncChar(v) ==
    IF v < 26 THEN 65 + v
    ELSE IF v < 52 THEN 97 + (v - 26)
    ELSE IF v < 62 THEN 48 + (v - 52)
    ELSE IF v = 62 THEN 43 ELSE 47

\* The decode map: the 6-bit value of a character, -1 for any other.
DecVal(c) ==
    IF c >= 65 /\ c <= 90 THEN c - 65
    ELSE IF c >= 97 /\ c <= 122 THEN c - 97 + 26
    ELSE IF c >= 48 /\ c <= 57 THEN c - 48 + 52
    ELSE IF c = 43 THEN 62
    ELSE IF c = 47 THEN 63 ELSE -1

\* base64.StdEncoding.EncodeToString: 3 bytes to 4 characters, '=' padding.
RECURSIVE EncodeToString(_)
EncodeToString(d) ==
    IF Len(d) = 0 THEN <<>>
    ELSE IF Len(d) = 1 THEN
        LET v == d[1] * 65536 IN
        <<EncChar(v \div 262144), EncChar((v \div 4096) % 64), 61, 61>>
    ELSE IF Len(d) = 2 THEN
        LET v == d[1] * 65536 + d[2] * 256 IN
        <<EncChar(v \div 262144), EncChar((v \div 4096) % 64), EncChar((v \div 64) % 64), 61>>
    ELSE
        LET v == d[1] * 65536 + d[2] * 256 + d[3] IN
        <<EncChar(v \div 262144), EncChar((v \div 4096) % 64),
          EncChar((v \div 64) % 64), EncChar(v % 64)>> \o EncodeToString(Tail2(d, 3))

\* The decoder skips '\r' and '\n' wherever they stand.
RECURSIVE SkipNewlines(_)
SkipNewlines(s) ==
    IF s = <<>> THEN <<>>
    ELSE IF Head(s) \in {10, 13} THEN SkipNewlines(Tail(s))
    ELSE <<Head(s)>> \o SkipNewlines(Tail(s))

\* One quantum after another: four characters give three bytes; "xx==" and
\* "xxx=" are accepted only as the last quantum; anything else is corrupt
\* input.  The encoding is not Strict: padding bits are not checked.
RECURSIVE DecodeQuanta(_)
DecodeQuanta(t) ==
    IF Len(t) = 0 THEN [ok |-> TRUE, bytes |-> <<>>]
    ELSE IF Len(t) < 4 THEN [ok |-> FALSE, bytes |-> <<>>]
    ELSE
        LET a == DecVal(t[1])
            b == DecVal(t[2])
            c == DecVal(t[3])
            d == DecVal(t[4])
            v == a * 262144 + b * 4096 + (IF c < 0 THEN 0 ELSE c) * 64 + (IF d < 0 THEN 0 ELSE d)
            b1 == v \div 65536
            b2 == (v \div 256) % 256
            b3 == v % 256
        IN
        IF a < 0 \/ b < 0 THEN [ok |-> FALSE, bytes |-> <<>>]
        ELSE IF c >= 0 /\ d >= 0 THEN
            LET r == DecodeQuanta(Tail2(t, 4)) IN
            [ok |-> r.ok, bytes |-> <<b1, b2, b3>> \o r.bytes]
        ELSE IF c >= 0 /\ t[4] = 61 /\ Len(t) = 4 THEN [ok |-> TRUE, bytes |-> <<b1, b2>>]
        ELSE IF t[3] = 61 /\ t[4] = 61 /\ Len(t) = 4 THEN [ok |-> TRUE, bytes |-> <<b1>>]
        ELSE [ok |-> FALSE, bytes |-> <<>>]

\* base64.StdEncoding.DecodeString: ok is err == nil; on an error the bytes
\* decoded so far are returned beside it.
DecodeString(s) == DecodeQuanta(SkipNewlines(s))

\* ------------------------------------------------------- the line wrapper

\* A faulty wrapper, to test C1's formula: the newline is written in place of
\* the rune at a line break, not before it.
WrapPiece_Replaces(c, off, width) == IF off > 0 /\ off % width = 0 THEN <<NL>> ELSE <<c>>

\* A faulty wrapper, to test C4's formula: the newline is written after every
\* width-th rune, the last one included.
WrapPiece_After(c, off, width) == IF (off + 1) % width = 0 THEN <<c, NL>> ELSE <<c>>

\* Lines 181-184 (and 158-161): the rune char at byte offset off, with the
\* newline the loop writes before it.
WrapPiece(c, off, width) == IF off > 0 /\ off % width = 0 THEN <<NL, c>> ELSE <<c>>

\* The bytes of the runes k .. j-1 of s: how far i advances over them.  (The
\* range is halved, not walked, so that long strings evaluate in few levels.)
RECURSIVE ByteLen(_, _, _)
ByteLen(s, k, j) ==
    IF k >= j THEN 0
    ELSE IF j = k + 1 THEN RuneLen(s[k])
    ELSE LET m == (k + j) \div 2 IN ByteLen(s, k, m) + ByteLen(s, m, j)

\* The loop body over the runes k .. j-1 of s, rune k starting at byte off.
RECURSIVE WrapRange(_, _, _, _, _)
WrapRange(s, width, k, off, j) ==
    IF k >= j THEN <<>>
    ELSE IF j = k + 1 THEN WrapPiece(s[k], off, width)
    ELSE LET m == (k + j) \div 2
         IN WrapRange(s, width, k, off, m)
                \o WrapRange(s, width, m, off + ByteLen(s, k, m), j)

\* command.wrapString
wrapString(s, width) == IF width <= 0 THEN s ELSE WrapRange(s, width, 1, 0, Len(s) + 1)

\* ----------------------------------------------------- the alphabet filter

\* The condition of lines 213-216 (and 193-196).
IsBase64Char(c) ==
    \/ (c >= 65 /\ c <= 90)
    \/ (c >= 97 /\ c <= 122)
    \/ (c >= 48 /\ c <= 57)
    \/ c = 43 \/ c = 47 \/ c = 61

\* The loop body over the runes k .. j-1 of s.
FilterRange(s, k, j) == SelectSeq(SubSeq(s, k, j - 1), IsBase64Char)

\* command.removeNonBase64
removeNonBase64(s) == FilterRange(s, 1, Len(s) + 1)

\* ------------------------------------------------ the cancellation polling

\* `if i%1000 == 0`: the loop checks the context before the rune at byte i.
PollPoint(off) == off % PollInterval = 0

\* The first of the runes lo .. hi-1 of s that starts at a poll point, rune
\* lo starting at byte off; hi when none does.
RECURSIVE FirstPoll(_, _, _, _)
FirstPoll(s, lo, hi, off) ==
    IF lo >= hi THEN hi
    ELSE IF hi = lo + 1 THEN (IF PollPoint(off) THEN lo ELSE hi)
    ELSE LET m == (lo + hi) \div 2
             l == FirstPoll(s, lo, m, off)
         IN IF l < m THEN l ELSE FirstPoll(s, m, hi, off + ByteLen(s, lo, m))

\* The loop runs from rune k (at byte off, where it has just checked the
\* context) up to the next rune that starts at a poll point: that rune's
\* position, Len(s) + 1 when the loop ends first.
SpanEnd(s, k, off) == FirstPoll(s, k + 1, Len(s) + 1, off + RuneLen(s[k]))

\* yup.CheckContextCancellation(ctx): ctx.Err() once the context is done.
CheckContextCancellation(c) == IF c THEN "Canceled" ELSE "nil"

\* yup.ScanWithContext(ctx, scanner): no scan once the context is done.
ScanWithContext(c, data) == ~c /\ data # <<>>

\* ------------------------------------------------------------------ inputs

ByteSet == {0, 72, 255}

HelloWorld == <<72, 101, 108, 108, 111, 32, 87, 111, 114, 108, 100>>
Nihongo == <<230, 151, 165, 230, 156, 172, 232, 170, 158>>
LongerString ==
    <<84, 104, 105, 115, 32, 105, 115, 32, 97, 32, 108, 111, 110, 103, 101, 114, 32,
      115, 116, 114, 105, 110, 103, 32, 116, 104, 97, 116, 32, 119, 105, 108, 108, 32,
      98, 101, 32, 119, 114, 97, 112, 112, 101, 100>>

\* Encoder inputs: every short byte sequence, the tests' inputs, and inputs
\* whose encoding is as long as the default width (57 bytes, 76 characters)
\* and longer (58 bytes, 80 characters).
DataInputs ==
    SeqsUpTo(ByteSet, MaxDataLen)
        \cup {HelloWorld, Nihongo, LongerString, Repeat(77, 57), Repeat(77, 58)}

\* 'Q', '=', '!', ' ', '\n', '\r'
TextChars == {81, 61, 33, 32, 10, 13}

TextHelloWorld == <<83, 71, 86, 115, 98, 71, 56, 103, 86, 50, 57, 121, 98, 71, 81, 61>>
TextInvalid == <<105, 110, 118, 97, 108, 105, 100, 32, 98, 97, 115, 101, 54, 52, 33>>
TextGarbage == <<105, 110, 118, 97, 108, 105, 100, 33, 33, 33>>
TextPartial == <<83, 71, 86, 115, 98, 71, 56>>
TextPadded == <<32, 32, 97, 71, 86, 115, 98, 71, 56, 61, 32, 32>>
TextInnerCR == <<83, 71, 86, 115, 13, 98, 71, 56, 61>>

\* Decoder inputs: every short text, and the tests' inputs.
TextInputs ==
    SeqsUpTo(TextChars, MaxTextLen)
        \cup {TextHelloWorld, TextInvalid, TextGarbage, TextPartial, TextPadded, TextInnerCR}

\* Wrap widths a caller may configure: negative, unset or zero, small ones
\* that wrap short encodings, and the tests' 10, 20 and 76.
WidthSet == {-1, 0, 1, 3, 4, 10, 20, 76}

\* 'A' (1 byte), U+00E9 (2 bytes), U+65E5 (3 bytes)
WrapChars == {65, 233, 26085}

WrapWidths == -1..(MaxWrapLen + 1)

\* ------------------------------------------------------------------- state

VARIABLES
    params,      \* the options given to Base64(...) for the command run first
    flags,       \* cmd.Flags of the command that is running
    src0,        \* the content of the input source, as first supplied
    reader,      \* what the source has not delivered yet
    readFail,    \* the source fails once its content is delivered, in place of EOF
    sinkFail,    \* the output sink rejects every write
    cancelled,   \* ctx is done
    pc,          \* where the invocation stands
    allData,     \* encodeSource's allData
    encoded,     \* encodeSource's encoded; the argument s of the wrapper
    encodedData, \* decodeSource's encodedData
    line,        \* decodeSource's line, while it is filtered
    pass,        \* the wrap or filter loop: rune position, byte offset, result
    scanErr,     \* scanner.Err() != nil
    out,         \* what the output sink holds
    writes,      \* the Write calls the sink has received
    stderr,      \* the diagnostic channel
    err,         \* the invocation's result, "none" until it returns
    piped,       \* the source of this invocation is an encoder's output
    ws,          \* the wrapper called alone: its argument
    wrapped      \* the wrapper called alone: wrapString's result

vars ==
    <<params, flags, src0, reader, readFail, sinkFail, cancelled, pc, allData, encoded,
      encodedData, line, pass, scanErr, out, writes, stderr, err, piped, ws, wrapped>>

\* Base64(parameters ...any): a width of 0 is taken as unset.
Base64(p) ==
    [p EXCEPT !.WrapWidth = IF p.WrapWidth = 0 THEN DefaultWrapWidth ELSE p.WrapWidth]

NoPass == [k |-> 1, off |-> 0, res |-> <<>>]

NotWrapped == [set |-> FALSE, s |-> <<>>]

Locals ==
    /\ allData = <<>>
    /\ encoded = <<>>
    /\ encodedData = <<>>
    /\ line = <<>>
    /\ pass = NoPass
    /\ scanErr = FALSE
    /\ out = <<>>
    /\ writes = 0
    /\ stderr = <<>>
    /\ err = "none"

Init ==
    /\ \/ /\ params \in [Decode : {FALSE}, IgnoreGarbage : {FALSE}, Wrap : BOOLEAN,
                         WrapWidth : WidthSet]
          /\ src0 \in DataInputs
       \/ /\ params \in [Decode : {TRUE}, IgnoreGarbage : BOOLEAN, Wrap : {FALSE},
                         WrapWidth : {0}]
          /\ src0 \in TextInputs
    /\ flags = Base64(params)
    /\ reader = src0
    /\ readFail \in BOOLEAN
    /\ sinkFail \in BOOLEAN
    /\ cancelled = FALSE
    /\ pc = "exec"
    /\ Locals
    /\ piped = FALSE
    /\ ws = <<>>
    /\ wrapped = NotWrapped

\* What no step of an invocation changes.
config == <<params, flags, src0, readFail, sinkFail, piped, ws, wrapped>>

\* `return err`
Return(e) == pc' = "done" /\ err' = e

\* The context is cancelled: one way, once, at any moment before the
\* invocation has returned.
Cancel ==
    /\ pc # "done"
    /\ ~cancelled
    /\ cancelled' = TRUE
    /\ UNCHANGED <<config, reader, pc, allData, encoded, encodedData, line, pass, scanErr,
                   out, writes, stderr, err>>

\* command.Execute
Execute ==
    /\ pc = "exec"
    /\ pc' = IF flags.Decode THEN "d_start" ELSE "e_start"
    /\ UNCHANGED <<config, reader, cancelled, allData, encoded, encodedData, line, pass,
                   scanErr, out, writes, stderr, err>>

\* ----------------------------------------------------------- encodeSource

\* Lines 56-63: the check before starting.
EncStart ==
    /\ pc = "e_start"
    /\ IF CheckContextCancellation(cancelled) # "nil"
       THEN Return(CheckContextCancellation(cancelled))
       ELSE pc' = "e_loop" /\ err' = err
    /\ UNCHANGED <<config, reader, cancelled, allData, encoded, encodedData, line, pass,
                   scanErr, out, writes, stderr>>

\* Lines 66-69: the check before each read.
EncLoopCheck ==
    /\ pc = "e_loop"
    /\ IF CheckContextCancellation(cancelled) # "nil"
       THEN Return(CheckContextCancellation(cancelled))
       ELSE pc' = "e_read" /\ err' = err
    /\ UNCHANGED <<config, reader, cancelled, allData, encoded, encodedData, line, pass,
                   scanErr, out, writes, stderr>>

\* The counts n a Read may return while the source has content: all that is
\* left (up to the buffer's size), or a short read.
ReadSizes(data) ==
    {Min(Len(data), chunkSize)} \cup {n \in 1..MaxShortRead : n < Len(data)}

\* Lines 71-81: reader.Read(buf).  A source reports EOF with its last bytes or
\* on the read after them; a failing source delivers its content and then
\* returns an error in place of EOF.
EncRead ==
    /\ pc = "e_read"
    /\ \/ /\ reader # <<>>
          /\ \E n \in ReadSizes(reader) :
                /\ allData' = allData \o SubSeq(reader, 1, n)
                /\ reader' = Tail2(reader, n)
                /\ \/ pc' = "e_loop"
                   \/ n = Len(reader) /\ ~readFail /\ pc' = "e_encode"
          /\ err' = err
       \/ /\ reader = <<>>
          /\ IF readFail THEN Return("ReadErr") ELSE pc' = "e_encode" /\ err' = err
          /\ UNCHANGED <<reader, allData>>
    /\ UNCHANGED <<config, cancelled, encoded, encodedData, line, pass, scanErr, out,
                   writes, stderr>>

\* Lines 83-85: encode everything read, and decide whether to wrap.
EncEncode ==
    /\ pc = "e_encode"
    /\ encoded' = EncodeToString(allData)
    /\ pass' = NoPass
    /\ pc' = IF (flags.Wrap \/ flags.WrapWidth > 0) /\ flags.WrapWidth > 0
             THEN "e_wrap" ELSE "e_write"
    /\ UNCHANGED <<config, reader, cancelled, allData, encodedData, line, scanErr, out,
                   writes, stderr, err>>

\* Lines 86-91 and command.wrapStringWithContext, from one check of the
\* context to the next: a non-positive width returns s; the loop checks the
\* context before a rune that starts at a poll point and returns the error if
\* it is done; at the end of s the result replaces encoded.
EncWrap ==
    /\ pc = "e_wrap"
    /\ IF flags.WrapWidth <= 0
       THEN pc' = "e_write" /\ UNCHANGED <<encoded, pass, err>>
       ELSE IF pass.k > Len(encoded)
       THEN pc' = "e_write" /\ encoded' = pass.res /\ UNCHANGED <<pass, err>>
       ELSE IF CheckContextCancellation(cancelled) # "nil"
       THEN Return(CheckContextCancellation(cancelled)) /\ UNCHANGED <<encoded, pass>>
       ELSE LET j == SpanEnd(encoded, pass.k, pass.off)
                res == pass.res \o WrapRange(encoded, flags.WrapWidth, pass.k, pass.off, j)
            IN /\ pass' = [k |-> j, off |-> pass.off + ByteLen(encoded, pass.k, j),
                           res |-> res]
               /\ IF j > Len(encoded)
                  THEN pc' = "e_write" /\ encoded' = res
                  ELSE pc' = pc /\ encoded' = encoded
               /\ err' = err
    /\ UNCHANGED <<config, reader, cancelled, allData, encodedData, line, scanErr, out,
                   writes, stderr>>

\* Lines 93-94: fmt.Fprintln(output, encoded), one Write of the text and a
\* newline, its result dropped; return nil.
EncWrite ==
    /\ pc = "e_write"
    /\ writes' = writes + 1
    /\ out' = IF sinkFail THEN out ELSE out \o encoded \o <<NL>>
    /\ Return("nil")
    /\ UNCHANGED <<config, reader, cancelled, allData, encoded, encodedData, line, pass,
                   scanErr, stderr>>

\* ----------------------------------------------------------- decodeSource

\* Lines 112-117: the check before starting.
DecStart ==
    /\ pc = "d_start"
    /\ IF CheckContextCancellation(cancelled) # "nil"
       THEN Return(CheckContextCancellation(cancelled))
       ELSE pc' = "d_scan" /\ err' = err
    /\ UNCHANGED <<config, reader, cancelled, allData, encoded, encodedData, line, pass,
                   scanErr, out, writes, stderr>>

\* Lines 119-121 and 128: one turn of the scan loop.  With the context done
\* the loop ends and the check of line 132, which sees the same context,
\* returns; with nothing left to scan the loop ends, and a failed source has
\* set scanner.Err(); else the next line is trimmed and, unless it is to be
\* filtered, appended.
DecScan ==
    /\ pc = "d_scan"
    /\ IF cancelled
       THEN /\ Return(CheckContextCancellation(cancelled))
            /\ UNCHANGED <<reader, scanErr, line, pass, encodedData>>
       ELSE IF ~ScanWithContext(cancelled, reader)
       THEN /\ scanErr' = readFail
            /\ pc' = "d_check"
            /\ UNCHANGED <<reader, line, pass, encodedData, err>>
       ELSE LET r == ScanLines(reader)
                l == TrimSpace(r.token)
            IN /\ reader' = r.rest
               /\ IF flags.IgnoreGarbage
                  THEN line' = l /\ pass' = NoPass /\ pc' = "d_filter"
                       /\ encodedData' = encodedData
                  ELSE encodedData' = encodedData \o l /\ pc' = pc
                       /\ UNCHANGED <<line, pass>>
               /\ UNCHANGED <<scanErr, err>>
    /\ UNCHANGED <<config, cancelled, allData, encoded, out, writes, stderr>>

\* Lines 122-128 and command.removeNonBase64WithContext, from one check of
\* the context to the next; at the end of the line the result is appended.
DecFilter ==
    /\ pc = "d_filter"
    /\ IF pass.k > Len(line)
       THEN /\ encodedData' = encodedData \o pass.res
            /\ pc' = "d_scan"
            /\ UNCHANGED <<pass, err>>
       ELSE IF CheckContextCancellation(cancelled) # "nil"
       THEN Return(CheckContextCancellation(cancelled)) /\ UNCHANGED <<encodedData, pass>>
       ELSE LET j == SpanEnd(line, pass.k, pass.off)
                res == pass.res \o FilterRange(line, pass.k, j)
            IN /\ pass' = [k |-> j, off |-> pass.off + ByteLen(line, pass.k, j),
                           res |-> res]
               /\ IF j > Len(line)
                  THEN pc' = "d_scan" /\ encodedData' = encodedData \o res
                  ELSE pc' = pc /\ encodedData' = encodedData
               /\ err' = err
    /\ UNCHANGED <<config, reader, cancelled, allData, encoded, line, scanErr, out,
                   writes, stderr>>

\* A faulty decoder, to test C8's formula: the scanner's error is looked at
\* before the context.
DecCheck_ErrFirst ==
    /\ pc = "d_check"
    /\ IF scanErr
       THEN stderr' = Append(stderr, "base64: read error") /\ Return("ReadErr")
       ELSE IF CheckContextCancellation(cancelled) # "nil"
       THEN Return(CheckContextCancellation(cancelled)) /\ stderr' = stderr
       ELSE pc' = "d_finish" /\ err' = err /\ stderr' = stderr
    /\ UNCHANGED <<config, reader, cancelled, allData, encoded, encodedData, line, pass,
                   scanErr, out, writes>>

\* A faulty decoder, to test C2's formula: the check after the scan loop is
\* missing.
DecCheck_Missing ==
    /\ pc = "d_check"
    /\ pc' = "d_finish"
    /\ UNCHANGED <<config, reader, cancelled, allData, encoded, encodedData, line, pass,
                   scanErr, out, writes, stderr, err>>

\* Lines 131-134: the check after the scan loop.
DecCheck ==
    /\ pc = "d_check"
    /\ IF CheckContextCancellation(cancelled) # "nil"
       THEN Return(CheckContextCancellation(cancelled))
       ELSE pc' = "d_finish" /\ err' = err
    /\ UNCHANGED <<config, reader, cancelled, allData, encoded, encodedData, line, pass,
                   scanErr, out, writes, stderr>>

\* A faulty decoder, to test C3's formula: the bytes decoded before the error
\* are written before the error is looked at.
DecFinish_WritesFirst ==
    /\ pc = "d_finish"
    /\ LET r == DecodeString(encodedData) IN
       /\ writes' = writes + 1
       /\ out' = IF sinkFail THEN out ELSE out \o r.bytes
       /\ IF scanErr
          THEN stderr' = Append(stderr, "base64: read error") /\ Return("ReadErr")
          ELSE IF ~r.ok
          THEN stderr' = Append(stderr, "base64: illegal base64 data") /\ Return("DecodeErr")
          ELSE stderr' = stderr /\ Return("nil")
    /\ UNCHANGED <<config, reader, cancelled, allData, encoded, encodedData, line, pass,
                   scanErr>>

\* Lines 136-148: a scan error is reported and returned; else the text is
\* decoded, and a decode error is reported and returned; else the bytes are
\* written, the Write's result dropped, and nil returned.
DecFinish ==
    /\ pc = "d_finish"
    /\ LET r == DecodeString(encodedData) IN
       IF scanErr
       THEN /\ stderr' = Append(stderr, "base64: read error")
            /\ Return("ReadErr")
            /\ UNCHANGED <<out, writes>>
       ELSE IF ~r.ok
       THEN /\ stderr' = Append(stderr, "base64: illegal base64 data")
            /\ Return("DecodeErr")
            /\ UNCHANGED <<out, writes>>
       ELSE /\ writes' = writes + 1
            /\ out' = IF sinkFail THEN out ELSE out \o r.bytes
            /\ Return("nil")
            /\ stderr' = stderr
    /\ UNCHANGED <<config, reader, cancelled, allData, encoded, encodedData, line, pass,
                   scanErr>>

\* The encoder's complete output is given to a decoder, Base64(Decode) with
\* or without IgnoreGarbage, as its source, under a fresh context, as
\* TestBase64_Unicode decodes what it has encoded.  The encoder's locals stay
\* as it left them; the decoder does not touch them.
DecodeBack ==
    /\ pc = "done"
    /\ ~flags.Decode
    /\ err = "nil"
    /\ ~sinkFail
    /\ \E g \in BOOLEAN :
          flags' = Base64([Decode |-> TRUE, IgnoreGarbage |-> g, Wrap |-> FALSE,
                           WrapWidth |-> 0])
    /\ reader' = out
    /\ piped' = TRUE
    /\ cancelled' = FALSE
    /\ pc' = "exec"
    /\ out' = <<>>
    /\ writes' = 0
    /\ err' = "none"
    /\ UNCHANGED <<params, src0, readFail, sinkFail, ws, wrapped, allData, encoded, pass,
                   encodedData, line, scanErr, stderr>>

Next ==
    \/ Cancel
    \/ Execute
    \/ EncStart
    \/ EncLoopCheck
    \/ EncRead
    \/ EncEncode
    \/ EncWrap
    \/ EncWrite
    \/ DecStart
    \/ DecScan
    \/ DecFilter
    \/ DecCheck
    \/ DecFinish
    \/ DecodeBack

Spec == Init /\ [][Next]_vars

\* ------------------------------------------------- the wrapper called alone

\* wrapString and wrapStringWithContext applied to a string of one-, two-
\* and three-byte runes, at every width around its length.
InitWrap ==
    /\ ws \in SeqsUpTo(WrapChars, MaxWrapLen)
    /\ params \in [Decode : {FALSE}, IgnoreGarbage : {FALSE}, Wrap : {TRUE},
                   WrapWidth : WrapWidths]
    /\ flags = params
    /\ src0 = <<>>
    /\ reader = <<>>
    /\ readFail = FALSE
    /\ sinkFail = FALSE
    /\ cancelled = FALSE
    /\ pc = "e_wrap"
    /\ allData = <<>>
    /\ encoded = ws
    /\ encodedData = <<>>
    /\ line = <<>>
    /\ pass = NoPass
    /\ scanErr = FALSE
    /\ out = <<>>
    /\ writes = 0
    /\ stderr = <<>>
    /\ err = "none"
    /\ piped = FALSE
    /\ wrapped = NotWrapped

\* wrapped := c.wrapString(ws, width)
CallWrapString ==
    /\ ~wrapped.set
    /\ wrapped' = [set |-> TRUE, s |-> wrapString(ws, flags.WrapWidth)]
    /\ UNCHANGED <<params, flags, src0, reader, readFail, sinkFail, cancelled, pc, allData,
                   encoded, encodedData, line, pass, scanErr, out, writes, stderr, err,
                   piped, ws>>

NextWrap ==
    \/ Cancel
    \/ EncWrap
    \/ CallWrapString

SpecWrap == InitWrap /\ [][NextWrap]_vars

\* ------------------------------------------- the two passes on long strings

\* Strings longer than the polling interval: up to MaxPrefix one-byte
\* characters, then a run of one character of one, two or three bytes.
LongLines ==
    {Repeat(65, p) \o Repeat(c, PollInterval + d) :
        p \in 0..MaxPrefix, c \in WrapChars, d \in 1..MaxExtra}

\* removeNonBase64WithContext(ctx, line) as line 123 calls it, or
\* wrapStringWithContext(ctx, encoded, c.WrapWidth) as line 86 calls it, at
\* the start of the pass over a long string ws.
InitPoll ==
    /\ ws \in LongLines
    /\ pc \in {"d_filter", "e_wrap"}
    /\ params = Base64([Decode |-> pc = "d_filter", IgnoreGarbage |-> pc = "d_filter",
                        Wrap |-> FALSE, WrapWidth |-> 0])
    /\ flags = params
    /\ src0 = <<>>
    /\ reader = <<>>
    /\ readFail = FALSE
    /\ sinkFail = FALSE
    /\ cancelled = FALSE
    /\ allData = <<>>
    /\ encoded = IF pc = "e_wrap" THEN ws ELSE <<>>
    /\ encodedData = <<>>
    /\ line = IF pc = "d_filter" THEN ws ELSE <<>>
    /\ pass = NoPass
    /\ scanErr = FALSE
    /\ out = <<>>
    /\ writes = 0
    /\ stderr = <<>>
    /\ err = "none"
    /\ piped = FALSE
    /\ wrapped = NotWrapped

NextPoll ==
    \/ Cancel
    \/ DecFilter
    \/ EncWrap

SpecPoll == InitPoll /\ [][NextPoll]_vars

\* ------------------------------------------------------------- properties

Done == pc = "done"

\* An encoder invocation has returned (a decoder fed by DecodeBack has
\* flags.Decode set).
EncodeDone == Done /\ ~flags.Decode

DecodeDone == Done /\ flags.Decode

\* s without its newlines.
RemoveNL(s) == SelectSeq(s, LAMBDA c : c # NL)

\* C1: round trip.  When a decoder, with ignoreGarbage either way, has been
\* given the complete output (inserted newlines and trailing newline
\* included) of an encoder of the bytes src0 configured with a width of 0 or
\* more (0, 10, 20 and 76 among them), and has returned without having been
\* cancelled, it has returned nil and the sink holds exactly src0.
C1_RoundTrip ==
    (piped /\ Done /\ err # "Canceled" /\ params.WrapWidth >= 0)
        => (err = "nil" /\ out = src0)

\* C1's case: 58 bytes, encoded to 80 characters and wrapped at 76, decoded
\* back with ignoreGarbage set.
C1_Witness ==
    /\ piped /\ Done /\ err = "nil"
    /\ flags.IgnoreGarbage
    /\ params.WrapWidth \in {0, 76}
    /\ Len(src0) = 58
    /\ Len(encoded) = 81
    /\ encoded[77] = NL
    /\ out = src0

\* The step the invocation is about to take checks the context: the checks
\* before starting, before each read, in each turn of the scan loop and after
\* it, and the check that opens each stretch of the wrap and filter loops.
Polls ==
    \/ pc \in {"e_start", "e_loop", "d_start", "d_scan", "d_check"}
    \/ pc = "e_wrap" /\ flags.WrapWidth > 0 /\ pass.k <= Len(encoded)
    \/ pc = "d_filter" /\ pass.k <= Len(line)

\* C2, as stated, in the part that involves no data error: once the context
\* is cancelled the invocation writes nothing (every write is the
\* invocation's last step, and the context is cancelled before it returns)
\* and does not return nil.
C2_OnceCancelled ==
    (Done /\ cancelled /\ err \notin {"ReadErr", "DecodeErr"})
        => (err = "Canceled" /\ writes = 0)

\* C2, amended: a check of the context that runs once the context is
\* cancelled ends the invocation at once with the cancellation error and
\* without a write, and an invocation that returns the cancellation error has
\* written nothing.
C2_CheckObservesCancel ==
    /\ [][(cancelled /\ Polls)
            => (pc' = "done" /\ err' = "Canceled" /\ out' = out /\ writes' = writes)]_vars
    /\ [](err = "Canceled" => (out = <<>> /\ writes = 0))

\* C2's case: the context was cancelled while the source was being read (some
\* of it is still unread), and the next check returned the error.
C2_Witness ==
    /\ Done /\ cancelled /\ err = "Canceled"
    /\ reader # <<>> /\ reader # src0
    /\ writes = 0

\* Padded standard base64, told from the text itself and not by decoding it:
\* with the '\r' and '\n' the decoder skips left out, a multiple of 4
\* characters, all of the alphabet but for one or two '=' at the very end.
ValidBase64(s) ==
    LET u == SkipNewlines(s)
        n == Len(u)
    IN /\ n % 4 = 0
       /\ \A i \in 1..n :
             \/ DecVal(u[i]) >= 0
             \/ u[i] = 61 /\ i >= n - 1 /\ u[n] = 61

C4_Wrapping ==
    (EncodeDone /\ err = "nil" /\ ~sinkFail /\ flags.WrapWidth > 0)
        => LET W == flags.WrapWidth
               n == Len(out)
           IN /\ n >= 1
              /\ out[n] = NL
              /\ \A p \in 1..(n - 1) : (out[p] = NL) <=> (p % (W + 1) = 0)
              /\ n > 1 => out[n - 1] # NL
              /\ RemoveNL(out) = EncodeToString(src0)

\* C4's case: 16 encoded characters at width 4, an exact multiple: four full
\* lines, three inserted newlines and the trailing one.
C4_Witness ==
    /\ EncodeDone /\ err = "nil" /\ ~sinkFail
    /\ src0 = HelloWorld
    /\ flags.WrapWidth = 4
    /\ Len(out) = 20
    /\ out[5] = NL /\ out[19] # NL /\ out[20] = NL

\* C5, as stated: a configured width of 0 disables wrapping.  When an
\* encoder configured with wrapWidth = 0 has returned nil and the sink took
\* the write, the output has no newline but its last character.
C5_ZeroDisablesWrapping ==
    (EncodeDone /\ params.WrapWidth = 0 /\ err = "nil" /\ ~sinkFail)
        => /\ Len(out) >= 1
           /\ out[Len(out)] = NL
           /\ \A p \in 1..(Len(out) - 1) : out[p] # NL

\* C6, as stated: with ignoreGarbage set, a decoder that reached the decode
\* step (neither cancelled nor failed by a read error) returns no error.
C6_GarbageNeverFails ==
    (DecodeDone /\ flags.IgnoreGarbage /\ err \notin {"Canceled", "ReadErr"})
        => err = "nil"

\* C7, as stated: when the sink has rejected the invocation's write, the
\* invocation returns the write error.
C7_WriteFailurePropagated == (Done /\ sinkFail /\ writes > 0) => err = "WriteErr"

\* C8, as stated: when the context was cancelled before the invocation
\* returned, the invocation does not return a read error or a decode error.
C8_CancellationFirst == (Done /\ cancelled) => err \notin {"ReadErr", "DecodeErr"}

\* A data error is about to happen: the source has delivered its content and
\* will fail the next read (encoder) or scan (decoder), or the scan loop has
\* ended with a scanner error or with text that does not decode.
DataErrorPending ==
    \/ pc \in {"e_loop", "d_scan"} /\ reader = <<>> /\ readFail
    \/ pc = "d_check" /\ (scanErr \/ ~DecodeString(encodedData).ok)

\* C8, amended: when the context is cancelled by the time of the check that
\* precedes the failing read, scan or decode, the invocation returns the
\* cancellation error and not the data error.
C8_CheckBeforeError ==
    [][(cancelled /\ DataErrorPending) => (pc' = "done" /\ err' = "Canceled")]_vars

\* C8's case: the source failed, the scanner holds its error, and the
\* decoder, cancelled by the time of the check after the loop, returned the
\* cancellation error without reporting the read error.
C8_Witness ==
    /\ DecodeDone /\ cancelled /\ err = "Canceled"
    /\ scanErr
    /\ stderr = <<>>

\* C9, as stated: an encoder and a decoder of an empty source, neither
\* cancelled nor failed, return nil and leave the sink empty.
C9_EmptyInput ==
    (Done /\ ~piped /\ src0 = <<>> /\ ~readFail /\ ~cancelled)
        => (err = "nil" /\ out = <<>>)

\* The wrapper that counts characters: a newline after every width-th rune
\* of s but the last, s itself for a width of 0 or less.
RECURSIVE CharWrapFrom(_, _, _)
CharWrapFrom(s, width, k) ==
    IF k > Len(s) THEN <<>>
    ELSE (IF k > 1 /\ (k - 1) % width = 0 THEN <<NL, s[k]>> ELSE <<s[k]>>)
             \o CharWrapFrom(s, width, k + 1)

CharWrap(s, width) == IF width <= 0 THEN s ELSE CharWrapFrom(s, width, 1)

\* C10, as stated: the line wrapper counts characters, not bytes.  What
\* wrapString returns for ws, and what wrapStringWithContext returns for it
\* when it is not cancelled, is ws with a newline after every width-th
\* character but the last, and ws itself for a width of 0 or less.
C10_CountsCharacters ==
    /\ wrapped.set => wrapped.s = CharWrap(ws, flags.WrapWidth)
    /\ pc = "e_write" => encoded = CharWrap(ws, flags.WrapWidth)

\* The invocation is inside the filter pass or the wrap pass, at a check of
\* the context with characters of the string left to process.
InPass ==
    \/ pc = "d_filter" /\ pass.k <= Len(line)
    \/ pc = "e_wrap" /\ flags.WrapWidth > 0 /\ pass.k <= Len(encoded)

\* C11, as stated: in the filter pass and in the wrap pass, for every string,
\* multi-byte characters included, at most 1000 characters are processed
\* from one check of the cancellation signal to the next check or to the end
\* of the pass, so that a cancellation during the pass is returned after at
\* most 1000 further characters.
C11_BoundedPolling ==
    [][InPass => pass'.k - pass.k <= PollInterval]_vars

=============================================================================
